---------------------------- MODULE Spec2Model ----------------------------
(***************************************************************************)
(* A model of pyspid: the rotator link (pyspid/pyspid.py, class PySpid)    *)
(* and the tracking controller (pyspid/tracker.py, class SpidTracker).     *)
(*                                                                         *)
(* Every serial write and every serial read is one step: the sleeps that   *)
(* separate them in the code are the points where the caller's end() can   *)
(* interleave with the background thread.                                  *)
(*                                                                         *)
(* Angles read from the rotator are kept in tenths of a degree, so that    *)
(* response[4] / 10 stays an integer.  Bytes are their integer values;     *)
(* Python's response[i] is Byte(response, i).                              *)
(***************************************************************************)
EXTENDS Integers, Sequences, FiniteSets, TLC

\* ------------------------------------------------------------- bounds
\* Cap on the write/read cycles of one get_response call (the code has none).
MaxCycles == 12
\* Cap on the completed iterations of the background loop.
MaxTicks == 3

\* ---------------------------------------------------------- constants
\* Python's None, for a field that holds no number yet.
None == -9999
\* get_response: while count < 10
MaxAttempts == 10
\* get_response: serial_obj.read(12), len(response) >= 12
FrameLen == 12

\* ------------------------------------------------------------- inputs
\* Tolerances the constructor is given: a valid one and one outside [0,30).
Tolerances == {2, 30}
\* Separations the coordinate collaborator reports (degrees).
Seps == {1, 2, 3, 6}
\* Predicted altitude one cadence ahead (degrees).
AltFutures == {-1, 0, 5}
\* Arguments go_to is called with (degrees).
AzInputs == {-1, 0, 180, 360, 361}
ElInputs == {-1, 0, 90, 180, 181}

\* Status frames the rotator can answer with: byte 0 echo, 1-4 azimuth digits,
\* 5 azimuth multiplier, 6-9 elevation digits, 10 elevation multiplier, 11 end.
FrameA == <<87, 9, 0, 0, 0, 1, 4, 0, 5, 5, 1, 32>>
FrameB == <<87, 7, 2, 0, 0, 2, 3, 6, 0, 0, 2, 32>>
\* What one serial read of up to 12 bytes can return: nothing, a frame that
\* lost its last byte, or a whole frame.
Responses == {<<>>, SubSeq(FrameA, 1, 11), FrameA, FrameB}

VARIABLES
    mode,             \* which object the caller constructs: "none", "link", "tracker"
    ctor,             \* the constructor: "none", "running", "returned", "raised"
    ctorErr,          \* what the constructor raised
    serial_open,      \* PySpid.serial_obj is open
    az_multi,         \* PySpid.az_multi
    el_multi,         \* PySpid.el_multi
    link_az,          \* PySpid._az (tenths of a degree)
    link_el,          \* PySpid._el (tenths of a degree)
    lpc,              \* position of the Link call in flight
    ctx,              \* who runs it: "init" (constructor), "tick" (thread), "user"
    count,            \* get_response's local count
    cycles,           \* writes of the status request made by this get_response call
    shorts,           \* reads shorter than a frame seen by this get_response call
    response,         \* get_response's local response
    wrote,            \* the last frame written to the channel, and by which operation
    last,             \* the last call the user made on the object, and its result
    update,           \* SpidTracker.update
    on_source,        \* SpidTracker.on_source
    current_az,       \* SpidTracker.current_az
    current_alt,      \* SpidTracker.current_alt
    tolerance,        \* the tolerance argument
    hasTarget,        \* ra and dec were given
    thread,           \* the function the background thread runs: "none", "_tracker", "_update_location"
    tpc,              \* the background thread: "none", "check", "call", "done", "raised"
    terr,             \* what ended the background thread
    off_source_count, \* _tracker's local off_source_count
    seps,             \* the separation of each completed iteration (None: not computed)
    lastTick          \* what the last completed iteration saw and did

linkVars == <<serial_open, az_multi, el_multi, link_az, link_el>>
callVars == <<lpc, ctx, count, cycles, shorts, response>>
trackVars == <<update, on_source, current_az, current_alt, tolerance, hasTarget, thread,
               tpc, terr, off_source_count, seps, lastTick>>
vars == <<mode, ctor, ctorErr, linkVars, callVars, wrote, last, trackVars>>

\* ------------------------------------------------------ pure functions
Byte(r, i) == r[i + 1]

RECURSIVE Zeros(_)
Zeros(n) == IF n = 0 THEN <<>> ELSE <<0>> \o Zeros(n - 1)

\* five_0
five_0 == Zeros(5)

\* get_response: out = chr(87) + five_0 + five_0 + chr(31) + chr(32)
StatusRequest_as_move == <<87>> \o five_0 \o five_0 \o <<47, 32>>
StatusRequest == <<87>> \o five_0 \o five_0 \o <<31, 32>>

\* get_location: out = chr(87) + five_0 + five_0 + chr(15) + chr(32)
LocationRequest == <<87>> \o five_0 \o five_0 \o <<15, 32>>

\* stop: stop_message = chr(87) + five_0 + five_0 + chr(15) + chr(32)
StopMessage == <<87>> \o five_0 \o five_0 \o <<15, 32>>

\* The function code of a frame: the byte before the terminator.
FunctionCode(frame) == IF Len(frame) < 2 THEN 0 ELSE frame[Len(frame) - 1]

\* str(n) of a non-negative integer, as character codes.
RECURSIVE Str(_)
Str(n) == IF n < 10 THEN <<48 + n>> ELSE Str(n \div 10) \o <<48 + (n % 10)>>

\* go_to: if len(az) == 3: az = "0" + az
Pad(s) == IF Len(s) = 3 THEN <<48>> \o s ELSE s

\* go_to: the range checks, elevation first.
ElInRange(el) == 0 <= el /\ el <= 180
AzInRange_open_above(az) == 0 <= az
AzInRange(az) == 0 <= az /\ az <= 360

\* go_to: the message built from az, el and the stored multipliers.
GoToMessage(az, el, am, em) ==
    <<87>> \o Pad(Str((az + 2 * 360) * am)) \o <<am>>
           \o Pad(Str((el + 360) * em)) \o <<em>> \o <<47, 32>>

\* get_response: if len(response) >= 12: break
FullFrame_one_short(r) == Len(r) >= FrameLen - 1
FullFrame(r) == Len(r) >= FrameLen

\* get_location: response[1] * 100 + response[2] * 10 + response[3] +
\* response[4] / 10, and the same of bytes 6 to 9, in tenths of a degree.
AzDigits(r) == Byte(r, 1) * 1000 + Byte(r, 2) * 100 + Byte(r, 3) * 10 + Byte(r, 4)
ElDigits(r) == Byte(r, 6) * 1000 + Byte(r, 7) * 100 + Byte(r, 8) * 10 + Byte(r, 9)

\* get_location: the azimuth and elevation decoded from a response, in tenths:
\* _az -= 2 * 360, _el -= 360.
DecodeAz_single_offset(r) == AzDigits(r) - 3600
DecodeAz(r) == AzDigits(r) - 2 * 3600
DecodeEl(r) == ElDigits(r) - 3600

NoFrame == [frame |-> <<>>, by |-> "none"]
NoCall == [op |-> "none", az |-> None, el |-> None, ret |-> "none",
           writes |-> 0, reads |-> 0, open |-> FALSE, pre |-> <<>>]
NoTick == [sep |-> None, alt_future |-> None, band |-> "none"]

\* ---------------------------------------------------------------- Init
Init ==
    /\ mode = "none" /\ ctor = "none" /\ ctorErr = "none"
    /\ serial_open = FALSE
    /\ az_multi = None /\ el_multi = None /\ link_az = None /\ link_el = None
    /\ lpc = "none" /\ ctx = "none" /\ count = 0 /\ cycles = 0 /\ shorts = 0
    /\ response = <<>>
    /\ wrote = NoFrame /\ last = NoCall
    /\ update = FALSE /\ on_source = FALSE
    /\ current_az = None /\ current_alt = None
    /\ tolerance = None /\ hasTarget = FALSE /\ thread = "none"
    /\ tpc = "none" /\ terr = "none" /\ off_source_count = 0
    /\ seps = <<>> /\ lastTick = NoTick


\* ------------------------------------------------ the Link call in flight
\* An exception leaves the Link call and propagates to whoever made it: out of
\* the constructor, out of the background thread (which dies), or to the user.
Raise(e) ==
    /\ lpc' = "none"
    /\ CASE ctx = "init" ->
              /\ ctor' = "raised" /\ ctorErr' = e
              /\ UNCHANGED <<tpc, terr, last>>
         [] ctx = "tick" ->
              /\ tpc' = "raised" /\ terr' = e
              /\ UNCHANGED <<ctor, ctorErr, last>>
         [] OTHER ->
              /\ last' = [last EXCEPT !.ret = e]
              /\ UNCHANGED <<ctor, ctorErr, tpc, terr>>

NoRaise == UNCHANGED <<ctor, ctorErr, tpc, terr>>

\* The user's call record counts the frames its call writes and the reads it makes.
CountWrite == last' = IF ctx = "user" THEN [last EXCEPT !.writes = @ + 1] ELSE last
CountRead == last' = IF ctx = "user" THEN [last EXCEPT !.reads = @ + 1] ELSE last

\* PySpid.__init__: port setter (os.stat), serial.Serial(port, 600, timeout=0),
\* then get_response() begins.
PySpidInitBegin(port_exists) ==
    IF port_exists
    THEN /\ serial_open' = TRUE
         /\ ctor' = "running" /\ ctorErr' = "none"
         /\ lpc' = "resp_write" /\ ctx' = "init"
         /\ count' = 0 /\ cycles' = 0 /\ shorts' = 0 /\ response' = <<>>
    ELSE /\ ctor' = "raised" /\ ctorErr' = "PortNotFound"
         /\ UNCHANGED <<serial_open, callVars>>

\* PySpid(port), called by the user.
NewPySpid(port_exists) ==
    /\ mode = "none"
    /\ mode' = "link"
    /\ PySpidInitBegin(port_exists)
    /\ UNCHANGED <<az_multi, el_multi, link_az, link_el, wrote, last, trackVars>>

\* SpidTracker(lat, lon, height, ra, dec, tolerance, cadence, port): its first
\* statement is PySpid(port).
NewSpidTracker(port_exists, tol, target) ==
    /\ mode = "none"
    /\ mode' = "tracker"
    /\ tolerance' = tol /\ hasTarget' = target
    /\ PySpidInitBegin(port_exists)
    /\ UNCHANGED <<az_multi, el_multi, link_az, link_el, wrote, last, update,
                   on_source, current_az, current_alt, thread, tpc, terr,
                   off_source_count, seps, lastTick>>

\* get_location: serial_obj.write(out.encode()), sleep(0.75), then get_response().
LocWrite ==
    /\ lpc = "loc_write"
    /\ IF serial_open
       THEN /\ wrote' = [frame |-> LocationRequest, by |-> "get_location"]
            /\ CountWrite
            /\ lpc' = "resp_write"
            /\ count' = 0 /\ cycles' = 0 /\ shorts' = 0 /\ response' = <<>>
            /\ NoRaise
       ELSE /\ Raise("PortNotOpen")
            /\ UNCHANGED <<wrote, count, cycles, shorts, response>>
    /\ UNCHANGED <<mode, linkVars, ctx, update, on_source, current_az, current_alt,
                   tolerance, hasTarget, thread, off_source_count, seps, lastTick>>

\* get_response, loop body: serial_obj.write(out.encode()), sleep(0.75).
RespWrite ==
    /\ lpc = "resp_write"
    /\ serial_open => cycles < MaxCycles
    /\ IF serial_open
       THEN /\ wrote' = [frame |-> StatusRequest, by |-> "get_response"]
            /\ CountWrite
            /\ cycles' = cycles + 1
            /\ lpc' = "resp_read"
            /\ NoRaise
       ELSE /\ Raise("PortNotOpen")
            /\ UNCHANGED <<wrote, cycles>>
    /\ UNCHANGED <<mode, linkVars, ctx, count, shorts, response, update, on_source,
                   current_az, current_alt, tolerance, hasTarget, thread, off_source_count,
                   seps, lastTick>>

\* get_response, loop body: response = serial_obj.read(12); break on a full
\* frame; otherwise the loop test count < 10 again (count is never changed),
\* whose else branch calls self.end() and returns the short response.
RespRead ==
    /\ lpc = "resp_read"
    /\ IF serial_open
       THEN \E r \in Responses :
              /\ response' = r
              /\ CountRead
              /\ NoRaise
              /\ count' = count
              /\ IF FullFrame(r)
                 THEN /\ lpc' = "returned"
                      /\ UNCHANGED <<shorts, serial_open>>
                 ELSE /\ shorts' = shorts + 1
                      /\ IF count < MaxAttempts
                         THEN lpc' = "resp_write" /\ UNCHANGED serial_open
                         ELSE lpc' = "returned" /\ serial_open' = FALSE
       ELSE /\ Raise("PortNotOpen")
            /\ UNCHANGED <<response, count, shorts, serial_open>>
    /\ UNCHANGED <<mode, az_multi, el_multi, link_az, link_el, ctx, cycles, wrote,
                   update, on_source, current_az, current_alt, tolerance, hasTarget, thread,
                   off_source_count, seps, lastTick>>

\* PySpid.__init__ after get_response(): response[5], response[10] (an
\* IndexError on a response that short), _az = _el = None.
PySpidInitEnd ==
    /\ mode = "link" /\ ctx = "init" /\ lpc = "returned"
    /\ IF Len(response) > 10
       THEN /\ az_multi' = Byte(response, 5)
            /\ el_multi' = Byte(response, 10)
            /\ link_az' = None /\ link_el' = None
            /\ ctor' = "returned"
            /\ lpc' = "none"
            /\ UNCHANGED <<ctorErr, tpc, terr, last>>
       ELSE /\ Raise("IndexError")
            /\ UNCHANGED <<az_multi, el_multi, link_az, link_el>>
    /\ UNCHANGED <<mode, serial_open, ctx, count, cycles, shorts, response, wrote,
                   update, on_source, current_az, current_alt, tolerance, hasTarget, thread,
                   off_source_count, seps, lastTick>>

\* SpidTracker.__init__: tolerance must be in [0, 30).
ToleranceValid_closed_above(tol) == 0 <= tol /\ tol <= 30
ToleranceValid(tol) == 0 <= tol /\ tol < 30

\* SpidTracker.__init__: the thread runs _tracker if ra and dec are given,
\* _update_location otherwise.
ThreadTarget(target) == IF target THEN "_tracker" ELSE "_update_location"

\* SpidTracker.__init__ after PySpid(port) returned: the fields, the tolerance
\* check, and the start of the one background thread.
SpidTrackerInitEnd ==
    /\ mode = "tracker" /\ ctx = "init" /\ lpc = "returned"
    /\ IF Len(response) > 10
       THEN /\ az_multi' = Byte(response, 5)
            /\ el_multi' = Byte(response, 10)
            /\ link_az' = None /\ link_el' = None
            /\ update' = TRUE
            /\ on_source' = FALSE
            /\ current_az' = None /\ current_alt' = None
            /\ lpc' = "none"
            /\ IF ToleranceValid(tolerance)
               THEN /\ ctor' = "returned" /\ tpc' = "check"
                    /\ thread' = ThreadTarget(hasTarget)
                    /\ UNCHANGED ctorErr
               ELSE /\ ctor' = "raised" /\ ctorErr' = "InvalidTolerance"
                    /\ UNCHANGED <<tpc, thread>>
            /\ UNCHANGED <<terr, last>>
       ELSE /\ Raise("IndexError")
            /\ UNCHANGED <<az_multi, el_multi, link_az, link_el, update, on_source,
                           current_az, current_alt, thread>>
    /\ UNCHANGED <<mode, serial_open, ctx, count, cycles, shorts, response, wrote,
                   tolerance, hasTarget, off_source_count, seps, lastTick>>


\* get_location after get_response(): _az and _el from the digits (an
\* IndexError on a response too short for the bytes read; the multipliers
\* are read last, for the log).  DecodedAz/DecodedEl are the fields after it.
DecodedAz == IF Len(response) > 4 THEN DecodeAz(response) ELSE link_az
DecodedEl == IF Len(response) > 9 THEN DecodeEl(response) ELSE link_el

\* ----------------------------------------- the Link used directly (PySpid)
LinkIdle == mode = "link" /\ ctor = "returned" /\ lpc = "none"

CallRecord(op, az, el) ==
    [op |-> op, az |-> az, el |-> el, ret |-> "none", writes |-> 0, reads |-> 0,
     open |-> serial_open, pre |-> <<link_az, link_el, az_multi, el_multi>>]

\* The user calls get_location().
GetLocationCall ==
    /\ LinkIdle
    /\ last' = CallRecord("get_location", None, None)
    /\ lpc' = "loc_write" /\ ctx' = "user"
    /\ UNCHANGED <<mode, ctor, ctorErr, linkVars, count, cycles, shorts, response,
                   wrote, trackVars>>

\* get_location() returns to the user.
GetLocationReturn ==
    /\ mode = "link" /\ ctx = "user" /\ lpc = "returned"
    /\ link_az' = DecodedAz /\ link_el' = DecodedEl
    /\ IF Len(response) > 10
       THEN /\ lpc' = "none"
            /\ last' = [last EXCEPT !.ret = "position"]
            /\ NoRaise
       ELSE Raise("IndexError")
    /\ UNCHANGED <<mode, serial_open, az_multi, el_multi, ctx, count, cycles,
                   shorts, response, wrote, update, on_source, current_az,
                   current_alt, tolerance, hasTarget, thread, off_source_count, seps,
                   lastTick>>

\* go_to(az, el): the two range checks, then one write of the message; nothing
\* is read back.  A write on a closed port raises.
GoTo(az, el) ==
    /\ LinkIdle
    /\ IF ~ElInRange(el) \/ ~AzInRange(az)
       THEN /\ last' = [CallRecord("go_to", az, el) EXCEPT !.ret = "False"]
            /\ UNCHANGED wrote
       ELSE IF serial_open
            THEN /\ wrote' = [frame |-> GoToMessage(az, el, az_multi, el_multi),
                              by |-> "go_to"]
                 /\ last' = [CallRecord("go_to", az, el) EXCEPT
                               !.ret = "True", !.writes = 1]
            ELSE /\ last' = [CallRecord("go_to", az, el) EXCEPT
                               !.ret = "PortNotOpen"]
                 /\ UNCHANGED wrote
    /\ UNCHANGED <<mode, ctor, ctorErr, linkVars, callVars, trackVars>>

\* stop(): one write of the stop message, then sleep(0.75).
Stop ==
    /\ LinkIdle
    /\ IF serial_open
       THEN /\ wrote' = [frame |-> StopMessage, by |-> "stop"]
            /\ last' = [CallRecord("stop", None, None) EXCEPT
                          !.ret = "None", !.writes = 1]
       ELSE /\ last' = [CallRecord("stop", None, None) EXCEPT !.ret = "PortNotOpen"]
            /\ UNCHANGED wrote
    /\ UNCHANGED <<mode, ctor, ctorErr, linkVars, callVars, trackVars>>

\* PySpid.end(): serial_obj.close().
LinkEnd ==
    /\ LinkIdle
    /\ serial_open' = FALSE
    /\ last' = [CallRecord("end", None, None) EXCEPT !.ret = "None"]
    /\ UNCHANGED <<mode, ctor, ctorErr, az_multi, el_multi, link_az, link_el,
                   callVars, wrote, trackVars>>

\* ------------------------------------------- the queries of the controller
\* The caller holds a constructed controller and is not inside a call of it.
CallerIdle ==
    /\ mode = "tracker" /\ ctor = "returned"
    /\ ~(last.op = "end" /\ last.ret = "none")

QueryRecord(op, ret) == [NoCall EXCEPT !.op = op, !.ret = ret]

\* current_ra_dec / current_l_b: SkyCoord(az=self.current_az * u.degree,
\* alt=self.current_alt * u.degree, frame=alt_az); None * u.degree is a
\* TypeError.
SkyCoordOf_none_tolerant(az, alt) == "tuple"
SkyCoordOf(az, alt) == IF az = None \/ alt = None THEN "TypeError" ELSE "tuple"

\* current_alt_az: the namedtuple of the two fields, whatever they hold.
QueryAltAz ==
    /\ CallerIdle
    /\ last' = QueryRecord("current_alt_az", "tuple")
    /\ UNCHANGED <<mode, ctor, ctorErr, linkVars, callVars, wrote, trackVars>>

\* current_ra_dec
QueryRaDec ==
    /\ CallerIdle
    /\ last' = QueryRecord("current_ra_dec", SkyCoordOf(current_az, current_alt))
    /\ UNCHANGED <<mode, ctor, ctorErr, linkVars, callVars, wrote, trackVars>>

\* current_l_b
QueryLB ==
    /\ CallerIdle
    /\ last' = QueryRecord("current_l_b", SkyCoordOf(current_az, current_alt))
    /\ UNCHANGED <<mode, ctor, ctorErr, linkVars, callVars, wrote, trackVars>>

\* -------------------------------------------- the controller (SpidTracker)
\* SpidTracker.end(): update = False, then pyspid_obj.end() closes the port.
\* EndEffect is what it leaves in update and in the port.
EndEffect_flag_only == [update |-> FALSE, open |-> serial_open]
EndEffect_port_only == [update |-> update, open |-> FALSE]
EndEffect == [update |-> FALSE, open |-> FALSE]

\* _tracker: if separation > tolerance
OutsideTolerance_inclusive(sep, tol) == sep >= tol
OutsideTolerance(sep, tol) == sep > tol
\* _tracker: elif separation > 2 * tolerance
TwiceOutside(sep, tol) == sep > 2 * tol
\* _tracker: if alt_future <= 0
TargetHasSet_below_only(alt_future) == alt_future < 0
TargetHasSet(alt_future) == alt_future <= 0
\* _tracker: if off_source_count >= 2
GiveUp(n) == n >= 2

\* The caller calls end() on the controller it constructed: update = False.
\* The thread can run between this statement and the close of the port.
SpidTrackerEnd ==
    /\ CallerIdle
    /\ update' = EndEffect.update
    /\ last' = QueryRecord("end", "none")
    /\ UNCHANGED <<mode, ctor, ctorErr, linkVars, callVars, wrote, on_source,
                   current_az, current_alt, tolerance, hasTarget, thread, tpc,
                   terr, off_source_count, seps, lastTick>>

\* end(), second statement: pyspid_obj.end() closes the port; end() returns.
SpidTrackerEndClose ==
    /\ mode = "tracker" /\ last.op = "end" /\ last.ret = "none"
    /\ serial_open' = EndEffect.open
    /\ last' = [last EXCEPT !.ret = "None"]
    /\ UNCHANGED <<mode, ctor, ctorErr, az_multi, el_multi, link_az, link_el,
                   callVars, wrote, trackVars>>

\* _tracker / _update_location: while self.update, then the call of
\* pyspid_obj.get_location(); the loop ends when the flag is down.
LoopCheck ==
    /\ tpc = "check"
    /\ update => Len(seps) < MaxTicks
    /\ IF update
       THEN /\ tpc' = "call"
            /\ lpc' = "loc_write" /\ ctx' = "tick"
       ELSE /\ tpc' = "done"
            /\ UNCHANGED <<lpc, ctx>>
    /\ UNCHANGED <<mode, ctor, ctorErr, linkVars, count, cycles, shorts, response,
                   wrote, last, update, on_source, current_az, current_alt,
                   tolerance, hasTarget, thread, terr, off_source_count, seps, lastTick>>

\* _update_location, one iteration after get_location() returned: publish the
\* position, sleep(cadence).
UpdateLocationTick ==
    /\ tpc = "call" /\ ctx = "tick" /\ lpc = "returned" /\ thread = "_update_location"
    /\ link_az' = DecodedAz /\ link_el' = DecodedEl
    /\ IF Len(response) > 10
       THEN /\ lpc' = "none"
            /\ current_az' = DecodedAz /\ current_alt' = DecodedEl
            /\ tpc' = "check"
            /\ seps' = Append(seps, None)
            /\ lastTick' = [sep |-> None, alt_future |-> None, band |-> "location"]
            /\ UNCHANGED <<ctor, ctorErr, terr, last>>
       ELSE /\ Raise("IndexError")
            /\ UNCHANGED <<current_az, current_alt, seps, lastTick>>
    /\ UNCHANGED <<mode, serial_open, az_multi, el_multi, ctx, count, cycles,
                   shorts, response, wrote, update, on_source, tolerance,
                   hasTarget, thread, off_source_count>>

\* _tracker, one iteration after get_location() returned: publish the position,
\* take the separation and, outside tolerance, the predicted altitude from the
\* coordinate collaborator, then the if / elif / else of the code.  The go_to
\* call of the first branch is commented out in the code: nothing is written.
TrackerTick ==
    /\ tpc = "call" /\ ctx = "tick" /\ lpc = "returned" /\ thread = "_tracker"
    /\ link_az' = DecodedAz /\ link_el' = DecodedEl
    /\ IF Len(response) > 10
       THEN /\ lpc' = "none"
            /\ current_az' = DecodedAz /\ current_alt' = DecodedEl
            /\ UNCHANGED <<ctor, ctorErr, last>>
            /\ \E sep \in Seps, alt_future \in AltFutures :
                 /\ seps' = Append(seps, sep)
                 /\ IF OutsideTolerance(sep, tolerance)
                    THEN /\ lastTick' = [sep |-> sep, alt_future |-> alt_future,
                                         band |-> "moving"]
                         /\ UNCHANGED <<on_source, off_source_count>>
                         /\ IF TargetHasSet(alt_future)
                            THEN /\ update' = EndEffect.update
                                 /\ serial_open' = EndEffect.open
                                 /\ tpc' = "raised" /\ terr' = "TargetSet"
                            ELSE /\ tpc' = "check"
                                 /\ UNCHANGED <<update, serial_open, terr>>
                    ELSE IF TwiceOutside(sep, tolerance)
                    THEN /\ lastTick' = [sep |-> sep, alt_future |-> None,
                                         band |-> "off"]
                         /\ on_source' = FALSE
                         /\ off_source_count' = off_source_count + 1
                         /\ IF GiveUp(off_source_count + 1)
                            THEN /\ update' = EndEffect.update
                                 /\ serial_open' = EndEffect.open
                                 /\ tpc' = "raised" /\ terr' = "TrackingLost"
                            ELSE /\ tpc' = "check"
                                 /\ UNCHANGED <<update, serial_open, terr>>
                    ELSE /\ lastTick' = [sep |-> sep, alt_future |-> None,
                                         band |-> "within"]
                         /\ on_source' = TRUE
                         /\ tpc' = "check"
                         /\ UNCHANGED <<off_source_count, update, serial_open, terr>>
       ELSE /\ Raise("IndexError")
            /\ UNCHANGED <<current_az, current_alt, seps, lastTick, on_source,
                           off_source_count, update, serial_open>>
    /\ UNCHANGED <<mode, az_multi, el_multi, ctx, count, cycles, shorts, response,
                   wrote, tolerance, hasTarget, thread>>

\* ---------------------------------------------------------------- Next
Next ==
    \/ \E port_exists \in BOOLEAN : NewPySpid(port_exists)
    \/ \E port_exists \in BOOLEAN, tol \in Tolerances, target \in BOOLEAN :
         NewSpidTracker(port_exists, tol, target)
    \/ LocWrite
    \/ RespWrite
    \/ RespRead
    \/ PySpidInitEnd
    \/ SpidTrackerInitEnd
    \/ GetLocationCall
    \/ GetLocationReturn
    \/ \E az \in AzInputs, el \in ElInputs : GoTo(az, el)
    \/ Stop
    \/ LinkEnd
    \/ SpidTrackerEnd
    \/ SpidTrackerEndClose
    \/ QueryAltAz
    \/ QueryRaDec
    \/ QueryLB
    \/ LoopCheck
    \/ UpdateLocationTick
    \/ TrackerTick

Spec == Init /\ [][Next]_vars

\* ------------------------------------------------- the codec on its own
\* The digits and multipliers a status frame can carry, and the arguments
\* go_to is given: the domain of the decoding and of the move message.
CodecAzDigits == {<<0, 0, 0, 0>>, <<5, 4, 0, 0>>, <<7, 1, 9, 9>>, <<7, 2, 0, 0>>,
                  <<9, 0, 0, 0>>, <<9, 9, 9, 9>>}
CodecElDigits == {<<0, 0, 0, 0>>, <<3, 6, 0, 0>>, <<4, 0, 5, 5>>, <<5, 3, 9, 9>>,
                  <<5, 4, 0, 0>>, <<9, 9, 9, 9>>}
CodecMultis == {1, 2, 4, 10}
CodecAz == {0, 99, 180, 279, 280, 360}
CodecEl == {0, 90, 180}

CodecFrame(a, am, e, em) == <<87>> \o a \o <<am>> \o e \o <<em>> \o <<32>>

\* A Link whose constructor learnt the multipliers from the rotator and whose
\* first get_location() has just been answered with a whole frame.
CodecInit ==
    /\ mode = "link" /\ ctor = "returned" /\ ctorErr = "none"
    /\ serial_open = TRUE
    /\ \E a \in CodecAzDigits, e \in CodecElDigits, am \in CodecMultis,
          em \in CodecMultis :
          /\ response = CodecFrame(a, am, e, em)
          /\ az_multi = am /\ el_multi = em
          /\ last = [op |-> "get_location", az |-> None, el |-> None,
                     ret |-> "none", writes |-> 2, reads |-> 1, open |-> TRUE,
                     pre |-> <<None, None, am, em>>]
    /\ link_az = None /\ link_el = None
    /\ lpc = "returned" /\ ctx = "user" /\ count = 0 /\ cycles = 1 /\ shorts = 0
    /\ wrote = [frame |-> StatusRequest, by |-> "get_response"]
    /\ update = FALSE /\ on_source = FALSE
    /\ current_az = None /\ current_alt = None
    /\ tolerance = None /\ hasTarget = FALSE /\ thread = "none"
    /\ tpc = "none" /\ terr = "none" /\ off_source_count = 0
    /\ seps = <<>> /\ lastTick = NoTick

CodecGoTo == \E az \in CodecAz, el \in CodecEl : GoTo(az, el)

CodecNext == GetLocationReturn \/ CodecGoTo

CodecSpec == CodecInit /\ [][CodecNext]_vars

\* The controller alone: its construction, its background thread, and a
\* caller that only calls end().
NextLoop ==
    \/ \E port_exists \in BOOLEAN, tol \in Tolerances, target \in BOOLEAN :
         NewSpidTracker(port_exists, tol, target)
    \/ LocWrite
    \/ RespWrite
    \/ RespRead
    \/ SpidTrackerInitEnd
    \/ SpidTrackerEnd
    \/ SpidTrackerEndClose
    \/ LoopCheck
    \/ UpdateLocationTick
    \/ TrackerTick

\* A step of the background thread: the operating system keeps scheduling a
\* started thread, and each of its sleeps ends.
ThreadStep ==
    \/ ctx = "tick" /\ (LocWrite \/ RespWrite \/ RespRead)
    \/ LoopCheck
    \/ UpdateLocationTick
    \/ TrackerTick

LoopSpec == Init /\ [][NextLoop]_vars /\ WF_vars(ThreadStep)

\* -------------------------------------------------------------- claims
\* The separation of the last completed iteration lies in (tolerance, 2*tolerance].
LastTickCatchingUp ==
    /\ lastTick.sep # None
    /\ lastTick.sep > tolerance
    /\ lastTick.sep <= 2 * tolerance

\* C1: a get_response call makes at most 10 write-wait-read cycles: against a
\* channel that never answers with 12 bytes it stops after the 10th and never
\* writes the status request an 11th time.
C1_NoEleventhCycle == cycles <= MaxAttempts

\* C2: when the reads of attempts 1..k-1 were short and attempt k (k <= 10)
\* read a full frame, get_response has returned after exactly k cycles with a
\* frame of at least 12 bytes, and has not closed the channel (in the thread's
\* call only the caller's end() can have closed it meanwhile).
C2_ReturnsOnFirstFullFrame ==
    (lpc = "returned" /\ shorts < MaxAttempts) =>
        /\ cycles = shorts + 1
        /\ Len(response) >= FrameLen
        /\ serial_open \/ (ctx = "tick" /\ ~update)

\* C2 witness: a call that returned on its 10th attempt, after 9 short reads,
\* with the channel open.
C2_Witness ==
    /\ lpc = "returned" /\ shorts = MaxAttempts - 1 /\ cycles = MaxAttempts
    /\ Len(response) = FrameLen /\ serial_open

\* C3: once the status request of the constructor has been answered short 10
\* times, opening the Link has failed and the serial channel is closed.
C3_InitFailsClosed ==
    (ctx = "init" /\ shorts >= MaxAttempts) => (ctor = "raised" /\ ~serial_open)

C5_MoveOnCatchUp ==
    (tpc = "check" /\ LastTickCatchingUp /\ lastTick.alt_future > 0) =>
        (wrote.by = "go_to" /\ FunctionCode(wrote.frame) = 47)

\* C6: after two consecutive iterations with separation > 2*tolerance (the
\* target still above the horizon) the off-source counter is 2 and the loop
\* has ended with TrackingLost.
C6_TrackingLostAfterTwo ==
    (/\ Len(seps) >= 2
     /\ seps[Len(seps)] > 2 * tolerance
     /\ seps[Len(seps) - 1] > 2 * tolerance
     /\ lastTick.alt_future > 0) =>
        (tpc = "raised" /\ terr = "TrackingLost" /\ off_source_count = 2)

\* C7: an iteration with tolerance < separation <= 2*tolerance whose predicted
\* altitude is <= 0 ends the loop in that iteration with TargetSet: no move
\* command was written and the thread never runs again.
C7_TargetSetSameTick ==
    (LastTickCatchingUp /\ lastTick.alt_future # None /\ lastTick.alt_future <= 0) =>
        /\ tpc = "raised" /\ terr = "TargetSet"
        /\ lpc = "none"
        /\ FunctionCode(wrote.frame) # 47

\* C7 witness: the loop ended with TargetSet on a tick with separation 3
\* (tolerance 2) and predicted altitude -1.
C7_Witness ==
    /\ tpc = "raised" /\ terr = "TargetSet"
    /\ tolerance = 2 /\ lastTick.sep = 3 /\ lastTick.alt_future = -1

\* C8: after an iteration whose separation exceeded the tolerance, with the
\* loop going on, the on-source flag reads false, also when an earlier
\* iteration had been on source.
C8_OffSourceClearsFlag ==
    (tpc = "check" /\ lastTick.sep # None /\ lastTick.sep > tolerance) => ~on_source

\* C9: the background thread never attempts a read or a write on a channel
\* that end() has already closed.
C9_NoIOOnClosedChannel == ~(tpc = "raised" /\ terr = "PortNotOpen")

\* C10: when the loop has ended on a fatal condition (TargetSet or
\* TrackingLost), the stop flag is set and the serial channel is closed.
C10_FatalExitClosesLink ==
    (tpc = "raised" /\ terr \in {"TargetSet", "TrackingLost"}) =>
        (~update /\ ~serial_open)

\* C10 witness: the loop has raised TargetSet; the flag is down and the
\* channel closed.
C10_Witness ==
    /\ tpc = "raised" /\ terr = "TargetSet" /\ ~update /\ ~serial_open

C11_QueriesNeverFail ==
    last.op \in {"current_alt_az", "current_ra_dec", "current_l_b"} =>
        last.ret = "tuple"

\* The caller's end() has returned.
EndReturned == last.op = "end" /\ last.ret = "None"

\* C20: once end() has returned, the background thread eventually exits (on
\* its loop test, or out of the call it was in); from then on it begins no
\* new iteration and no frame is written to the channel.
C20_LoopExitsAfterEnd ==
    /\ EndReturned ~> (tpc \in {"done", "raised"})
    /\ [][EndReturned => (wrote' = wrote /\ ~(tpc = "check" /\ tpc' = "call"))]_vars

\* C20 witness: end() returned after one completed iteration and the thread
\* left its loop at the next test of the flag.
C20_Witness == EndReturned /\ tpc = "done" /\ Len(seps) = 1

\* The number of iterations at the end of s whose separation exceeded twice
\* the tolerance.
RECURSIVE TrailingLarge(_)
TrailingLarge(s) ==
    IF s = <<>> \/ s[Len(s)] <= 2 * tolerance
    THEN 0
    ELSE 1 + TrailingLarge(SubSeq(s, 1, Len(s) - 1))

C18_StopCodeOnlyFromStop ==
    FunctionCode(wrote.frame) = 15 => wrote.by = "stop"

\* C19: after the controller's constructor has raised, the serial channel is
\* closed.
C19_FailedConstructionClosesLink ==
    (mode = "tracker" /\ ctor = "raised") => ~serial_open

\* go_to has returned True: wrote holds the move message it sent.
MoveSent == last.op = "go_to" /\ last.ret = "True" /\ wrote.by = "go_to"

\* C15: the move message go_to writes has the length of the status request
\* and of the stop message, whatever the arguments in range and the stored
\* multipliers.
C15_MoveFrameFixedLength ==
    MoveSent =>
        /\ Len(wrote.frame) = Len(StatusRequest)
        /\ Len(wrote.frame) = Len(StopMessage)

\* C16 as claimed: every position get_location returns has its azimuth in
\* [0,360) and its elevation in [0,180).
C16_DecodeInDomain ==
    (last.op = "get_location" /\ last.ret = "position") =>
        /\ 0 <= link_az /\ link_az < 3600
        /\ 0 <= link_el /\ link_el < 1800

\* C16, amended: the position get_location returns is the digits of the frame
\* less 720 (azimuth) and less 360 (elevation), a function of the frame bytes
\* alone; the azimuth lies in [-720, 279.9] and is in [0,360) exactly when its
\* digits encode 720.0 or more, the elevation lies in [-360, 639.9] and is in
\* [0,180) exactly when its digits encode 360.0 to 539.9.  (Tenths of a degree.)
C16_DecodeSubtractsOffsets ==
    (last.op = "get_location" /\ last.ret = "position") =>
        LET a == 1000 * response[2] + 100 * response[3] + 10 * response[4] + response[5]
            e == 1000 * response[7] + 100 * response[8] + 10 * response[9] + response[10]
        IN  /\ link_az = a - 7200
            /\ link_el = e - 3600
            /\ -7200 <= link_az /\ link_az <= 2799
            /\ -3600 <= link_el /\ link_el <= 6399
            /\ (0 <= link_az /\ link_az < 3600) <=> a >= 7200
            /\ (0 <= link_el /\ link_el < 1800) <=> (3600 <= e /\ e < 5400)

\* C16 witness: a frame whose azimuth digits are 0000 and whose elevation
\* digits are 9999 was decoded to -720.0 and 639.9.
C16_Witness ==
    /\ last.op = "get_location" /\ last.ret = "position"
    /\ link_az = -7200 /\ link_el = 6399

\* C17: the digit decoding of get_location (without the offsets), applied to
\* the bytes of the move message go_to wrote, gives back the azimuth and the
\* elevation go_to was given, or their scaled and offset values, to within
\* 0.1 degree.  (Tenths of a degree.)
C17_RoundTrip ==
    MoveSent =>
        LET a == AzDigits(wrote.frame)
            e == ElDigits(wrote.frame)
            Near(x, y) == x - y <= 1 /\ y - x <= 1
        IN  /\ Near(a, 10 * last.az) \/ Near(a, 10 * (last.az + 720) * az_multi)
            /\ Near(e, 10 * last.el) \/ Near(e, 10 * (last.el + 360) * el_multi)

=============================================================================
